---- MODULE Spec2Model ----
(***************************************************************************)
(* Recruitment fulfillment dashboard (src/app.py).                         *)
(*                                                                         *)
(* The script is run top to bottom once at start-up and once more after    *)
(* every change of a sidebar selectbox.  One run loads the table, reads    *)
(* the six filter selections, filters the table, computes three KPI        *)
(* values, the principle group-by and the two regional group-bys.          *)
(*                                                                         *)
(* Numbers that the script obtains by true division are kept as exact      *)
(* fractions [num, den]; den = 0 stands for not-a-number (0/0).            *)
(***************************************************************************)
EXTENDS Integers, Sequences, FiniteSets

VARIABLES
    df,               \* the loaded table: a sequence of records
    filters,          \* column -> selected value or "All"
    filtered,         \* the filtered view
    amk, akp,         \* the two Agency sub-populations of the filtered view
    c1, c2, c3,       \* the three KPI values
    principle_chart,  \* group-by of filtered on Principle and Recruitment Status
    regional_amk,     \* outcome of regional_chart(amk, ...)
    regional_akp      \* outcome of regional_chart(akp, ...)

vars == <<df, filters, filtered, amk, akp, c1, c2, c3,
          principle_chart, regional_amk, regional_akp>>

----------------------------------------------------------------------------
(* Bounds and the value universe *)

MaxRows == 2

\* A missing cell (NaN after read_excel).
NaN == "nan"

All == "All"

\* The cell values of the model, in the order in which Python and pandas
\* sort them (code points: upper case before lower case).
ValueOrder ==
    <<"AKP", "AMK", "HOLD", "JKT", "MD", "OPEN", "P1", "P2", "Q1", "Q2",
      "R1", "R2", "RECRUIT", "SPG", "jkt">>

Rank(v) == CHOOSE i \in 1..Len(ValueOrder) : ValueOrder[i] = v

Before(a, b) == Rank(a) < Rank(b)

Row(ag, pr, ar, jt, rg, sq, rs) ==
    [c \in {"Agency", "Principle", "Area", "Job Title", "Regional",
            "Status Quota", "Recruitment Status"} |->
        CASE c = "Agency" -> ag
          [] c = "Principle" -> pr
          [] c = "Area" -> ar
          [] c = "Job Title" -> jt
          [] c = "Regional" -> rg
          [] c = "Status Quota" -> sq
          [] OTHER -> rs]

\* The rows a spreadsheet of the model may hold.
Rows ==
    { Row("AMK", "P1", "JKT", "SPG", "R1", "Q1", "OPEN"),
      Row("AMK", "P1", "JKT", "SPG", "R1", "Q1", "RECRUIT"),
      Row("AMK", "P2", "jkt", "SPG", "R2", "Q2", "HOLD"),
      Row("AMK", "P2", "JKT", "SPG", "R1", "Q1", NaN),
      Row("AKP", "P2", "JKT", "MD",  "R1", "Q1", "RECRUIT"),
      Row("AKP", NaN,  "JKT", "SPG", "R2", "Q1", "OPEN") }

RECURSIVE SeqsUpTo(_, _)
SeqsUpTo(S, n) ==
    IF n = 0 THEN {<<>>}
    ELSE LET shorter == SeqsUpTo(S, n - 1)
         IN  shorter \cup {Append(s, x) : s \in {t \in shorter : Len(t) = n - 1}, x \in S}

Tables == SeqsUpTo(Rows, MaxRows)

----------------------------------------------------------------------------
(* pandas / Python helpers *)

\* Series == value: a missing cell equals nothing.
Eq(cell, val) == cell # NaN /\ val # NaN /\ cell = val

\* Upper-case form of a cell value.
Upper(v) == IF v = "jkt" THEN "JKT" ELSE v

\* Variant of Mask: the comparison ignores case.
MaskIgnoreCase(data, col, val) ==
    SelectSeq(data, LAMBDA rec : rec[col] # NaN /\ Upper(rec[col]) = Upper(val))

\* data[data[col] == val]: the rows that match, in their order.
Mask(data, col, val) == SelectSeq(data, LAMBDA rec : Eq(rec[col], val))

\* (data[col] == val).sum()
CountEq(data, col, val) == Len(Mask(data, col, val))

\* The values of a set, ascending.
Sorted(S) == SelectSeq(ValueOrder, LAMBDA v : v \in S)

\* df[column].dropna().unique()
Unique(data, column) == {data[i][column] : i \in 1..Len(data)} \ {NaN}

\* select_filter: the options a selectbox offers.
select_filter(data, column) == <<All>> \o Sorted(Unique(data, column))

FilterColumns ==
    <<"Agency", "Principle", "Area", "Job Title", "Regional", "Status Quota">>

Range(s) == {s[i] : i \in 1..Len(s)}

\* The loop over filters.items(), starting at the i-th column.
RECURSIVE FilterLoop(_, _, _)
FilterLoop(data, sel, i) ==
    IF i > Len(FilterColumns) THEN data
    ELSE LET col == FilterColumns[i]
             val == sel[col]
         IN  FilterLoop(IF val # All THEN Mask(data, col, val) ELSE data, sel, i + 1)

\* filtered = df.copy(); for col, val in filters.items(): ...
applyFilters(table, sel) == FilterLoop(table, sel, 1)

----------------------------------------------------------------------------
(* Fractions *)

\* a / b on integers; numpy gives not-a-number for 0 / 0.
TrueDiv(a, b) == [num |-> a, den |-> b]

\* x * 100
Times100(x) == [num |-> x.num * 100, den |-> x.den]

\* 1 - x
OneMinus(x) == [num |-> x.den - x.num, den |-> x.den]

\* The integer k as a fraction.
Whole(k) == [num |-> k, den |-> 1]

IsNaN(x) == x.den = 0

\* Numeric equality of two fractions that are numbers.
Same(x, y) == ~IsNaN(x) /\ ~IsNaN(y) /\ x.num * y.den = y.num * x.den

----------------------------------------------------------------------------
(* KPI *)

fulfillment(data) ==
    LET o == CountEq(data, "Recruitment Status", "OPEN")
        r == CountEq(data, "Recruitment Status", "RECRUIT")
    IN  IF o > 0 THEN OneMinus(Times100(TrueDiv(r, r + o))) ELSE Whole(0)

----------------------------------------------------------------------------
(* Group-by *)

\* Variant of GroupPairs: every combination of a key of a with a key of b
\* (the groups of categorical keys).
GroupPairsProduct(data, a, b) ==
    {<<x, y>> : x \in {data[i][a] : i \in 1..Len(data)} \ {NaN},
                y \in {data[i][b] : i \in 1..Len(data)} \ {NaN}}

\* The (a, b) key pairs of the groups of data.groupby([a, b]): the pairs that
\* occur in a row; a row with a missing key belongs to no group.
GroupPairs(data, a, b) ==
    {<<data[i][a], data[i][b]>> : i \in {j \in 1..Len(data) :
                                          data[j][a] # NaN /\ data[j][b] # NaN}}

\* Number of rows of the group (ka, kb).
GroupSize(data, a, b, ka, kb) ==
    Len(SelectSeq(data, LAMBDA rec : Eq(rec[a], ka) /\ Eq(rec[b], kb)))

PairBefore(p, q) == Before(p[1], q[1]) \/ (p[1] = q[1] /\ Before(p[2], q[2]))

\* The key pairs in group-by order (sort=True: ascending by key).
RECURSIVE SortPairs(_)
SortPairs(S) ==
    IF S = {} THEN <<>>
    ELSE LET first == CHOOSE p \in S : \A q \in S \ {p} : PairBefore(p, q)
         IN  <<first>> \o SortPairs(S \ {first})

\* data.groupby([a, b]).size(): one entry per group, in key order.
groupby_size(data, a, b) ==
    LET keys == SortPairs(GroupPairs(data, a, b))
    IN  [i \in 1..Len(keys) |->
            [key |-> keys[i],
             Count |-> GroupSize(data, a, b, keys[i][1], keys[i][2])]]

\* principle_chart: .reset_index(name="Count") turns the keys into columns.
PrincipleChart(data) ==
    LET size == groupby_size(data, "Principle", "Recruitment Status")
    IN  [i \in 1..Len(size) |->
            [Principle |-> size[i].key[1],
             Status |-> size[i].key[2],
             Count |-> size[i].Count]]

----------------------------------------------------------------------------
(* Regional chart *)

\* Variant of UnstackIndex: one row per Regional value of the value universe.
UnstackIndexAll(data, size) == Sorted({"R1", "R2"})

\* The values of column col in the order of their first occurrence.
RECURSIVE FirstSeen(_, _)
FirstSeen(data, col) ==
    IF data = <<>> THEN <<>>
    ELSE LET n == Len(data)
             before == FirstSeen(SubSeq(data, 1, n - 1), col)
         IN  IF data[n][col] \in Range(before) THEN before
             ELSE Append(before, data[n][col])

\* Variant of UnstackIndex: the groups in first-occurrence order (sort=False).
UnstackIndexUnsorted(data, size) ==
    SelectSeq(FirstSeen(data, "Regional"),
              LAMBDA g : \E i \in 1..Len(size) : size[i].key[1] = g)

\* The row labels of size.unstack(): the first-level keys, in index order.
UnstackIndex(data, size) == Sorted({size[i].key[1] : i \in 1..Len(size)})

\* The column labels of size.unstack(): the second-level keys.
UnstackColumns(size) == {size[i].key[2] : i \in 1..Len(size)}

\* One cell of size.unstack(fill_value=0).
UnstackCell(size, g, s) ==
    IF \E i \in 1..Len(size) : size[i].key = <<g, s>>
    THEN size[CHOOSE i \in 1..Len(size) : size[i].key = <<g, s>>].Count
    ELSE 0

\* temp.get(name, 0) read at one row: the cell when temp has the column,
\* the default 0 otherwise.
Get(cells, name) == IF name \in DOMAIN cells THEN cells[name] ELSE 0

\* Variant of FulfillmentPct: the KPI's expression applied to one row.
FulfillmentPctAsKpi(cells) ==
    OneMinus(Times100(TrueDiv(Get(cells, "RECRUIT"),
                              Get(cells, "OPEN") + Get(cells, "RECRUIT"))))

\* (RECRUIT / (OPEN + RECRUIT)) * 100 for one row of temp.
FulfillmentPct(cells) ==
    Times100(TrueDiv(Get(cells, "RECRUIT"), Get(cells, "OPEN") + Get(cells, "RECRUIT")))

regional_chart(data) ==
    LET size == groupby_size(data, "Regional", "Recruitment Status")
        index == UnstackIndex(data, size)
        columns == UnstackColumns(size)
        temp == [i \in 1..Len(index) |->
                    [Regional |-> index[i],
                     cells |-> [s \in columns |-> UnstackCell(size, index[i], s)]]]
    IN  IF "RECRUIT" \notin columns /\ "OPEN" \notin columns
        THEN \* both operands are the int 0: 0 / (0 + 0) raises
             [status |-> "ZeroDivisionError", rows |-> <<>>]
        ELSE [status |-> "ok",
              rows |-> [i \in 1..Len(temp) |->
                           [Regional |-> temp[i].Regional,
                            cells |-> temp[i].cells,
                            pct |-> FulfillmentPct(temp[i].cells)]]]

\* The chart that the script never reached.
NotRun == [status |-> "not run", rows |-> <<>>]

----------------------------------------------------------------------------
(* One run of the script *)

Script(table, sel) ==
    LET f == applyFilters(table, sel)
        a == Mask(f, "Agency", "AMK")
        k == Mask(f, "Agency", "AKP")
        left == regional_chart(a)
    IN  [filtered |-> f, amk |-> a, akp |-> k,
         c1 |-> fulfillment(f), c2 |-> fulfillment(a), c3 |-> fulfillment(k),
         principle_chart |-> PrincipleChart(f),
         regional_amk |-> left,
         regional_akp |-> IF left.status = "ok" THEN regional_chart(k) ELSE NotRun]

Shows(run) ==
    /\ filtered' = run.filtered
    /\ amk' = run.amk
    /\ akp' = run.akp
    /\ c1' = run.c1
    /\ c2' = run.c2
    /\ c3' = run.c3
    /\ principle_chart' = run.principle_chart
    /\ regional_amk' = run.regional_amk
    /\ regional_akp' = run.regional_akp

NoFilter == [c \in Range(FilterColumns) |-> All]

Init ==
    /\ df \in Tables
    /\ filters = NoFilter
    /\ LET run == Script(df, NoFilter)
       IN  /\ filtered = run.filtered
           /\ amk = run.amk
           /\ akp = run.akp
           /\ c1 = run.c1
           /\ c2 = run.c2
           /\ c3 = run.c3
           /\ principle_chart = run.principle_chart
           /\ regional_amk = run.regional_amk
           /\ regional_akp = run.regional_akp

\* Variant of SelectFilter: the run filters the previous filtered view instead
\* of a fresh copy of the table.
SelectFilterCumulative(col, val) ==
    /\ val # filters[col]
    /\ filters' = [filters EXCEPT ![col] = val]
    /\ df' = df
    /\ Shows(Script(filtered, filters'))

\* The user picks val in the selectbox of column col; the script runs again.
SelectFilter(col, val) ==
    /\ val # filters[col]
    /\ filters' = [filters EXCEPT ![col] = val]
    /\ df' = df
    /\ Shows(Script(df, filters'))

Next == \E col \in Range(FilterColumns) :
            \E val \in Range(select_filter(df, col)) : SelectFilter(col, val)

Spec == Init /\ [][Next]_vars

----------------------------------------------------------------------------
(* Properties *)

\* Number of rows of data whose Recruitment Status is s.
NumStatus(data, s) ==
    Cardinality({i \in 1..Len(data) : data[i]["Recruitment Status"] = s})

\* Number of rows of data in region g whose Recruitment Status is s.
NumRegionStatus(data, g, s) ==
    Cardinality({i \in 1..Len(data) :
                    data[i]["Regional"] = g /\ data[i]["Recruitment Status"] = s})

\* The rows of data in region g.
RegionRows(data, g) == {i \in 1..Len(data) : data[i]["Regional"] = g}

\* The three KPI values with the subsets they are computed from.
Kpis == {<<filtered, c1>>, <<amk, c2>>, <<akp, c3>>}

\* The two regional charts with the sub-populations passed to them.
Charts == {<<amk, regional_amk>>, <<akp, regional_akp>>}

\* The calls of regional_chart that the run made.
Called == {ch \in Charts : ch[2].status # "not run"}

InRange(x) == ~IsNaN(x) /\ x.num >= 0 /\ x.num <= 100 * x.den

\* C1: fulfillment(subset) is 0 when the subset has no OPEN record, and
\* (1 - recruit/(open + recruit)) * 100 otherwise.
C1_FulfillmentValue ==
    \A k \in Kpis :
        LET o == NumStatus(k[1], "OPEN")
            r == NumStatus(k[1], "RECRUIT")
        IN  IF o = 0 THEN Same(k[2], Whole(0))
            ELSE Same(k[2], Times100(OneMinus(TrueDiv(r, o + r))))

\* C2: every KPI value (overall, AMK, AKP) lies between 0 and 100.
C2_KpiInRange == \A k \in Kpis : InRange(k[2])

\* The rows of table that equal the selected value in every dimension that is
\* not "All", in table order.
Matching(table, sel) ==
    SelectSeq(table, LAMBDA rec :
        \A col \in Range(FilterColumns) : sel[col] = All \/ rec[col] = sel[col])

\* C3: the filtered view holds exactly the records that equal the selected
\* value in every dimension not set to "All", in table order; with every
\* dimension "All" it is the whole table.
C3_FilterExact ==
    /\ filtered = Matching(df, filters)
    /\ filters = NoFilter => filtered = df

Constrained == {col \in Range(FilterColumns) : filters[col] # All}

\* Two dimensions are constrained, some record passes, and some record that
\* matches one of the two is removed by the other.
C3_Witness ==
    /\ Cardinality(Constrained) >= 2
    /\ filtered # <<>>
    /\ \E i \in 1..Len(df), col \in Constrained :
          /\ df[i][col] = filters[col]
          /\ \E other \in Constrained : df[i][other] # filters[other]

\* C4: every recomputation pass leaves the loaded table as it was, and the
\* filtered view it produces is the filter of that table under the new
\* selection, whatever was selected before.
C4_FreshRecompute ==
    [][df' = df /\ filtered' = Matching(df, filters')]_vars

\* Two dimensions are constrained, which takes two passes after the first
\* run, and the view of the last pass is a non-empty proper part of the table.
C4_Witness ==
    /\ \E a, b \in Constrained : a # b
    /\ filtered # <<>>
    /\ Len(filtered) < Len(df)

\* C5: no call of regional_chart raises, whatever the selection.
C5_NoDivisionError ==
    \A ch \in Charts : ch[2].status # "ZeroDivisionError"

RECURSIVE SumCounts(_)
SumCounts(chart) ==
    IF chart = <<>> THEN 0
    ELSE chart[Len(chart)].Count + SumCounts(SubSeq(chart, 1, Len(chart) - 1))

\* The rows of data with the pair (p, s) of Principle and Recruitment Status.
PairRows(data, p, s) ==
    {i \in 1..Len(data) :
        data[i]["Principle"] = p /\ data[i]["Recruitment Status"] = s}

\* The rows of data that have a Principle and a Recruitment Status.
Complete(data) ==
    {i \in 1..Len(data) :
        data[i]["Principle"] # NaN /\ data[i]["Recruitment Status"] # NaN}

\* No emitted count is 0, and every pair of a Principle and a Recruitment
\* Status that some record has is emitted once, with the number of its records.
PairsOnce ==
    /\ \A i \in 1..Len(principle_chart) : principle_chart[i].Count > 0
    /\ \A j \in Complete(filtered) :
          LET p == filtered[j]["Principle"]
              s == filtered[j]["Recruitment Status"]
          IN  Cardinality({i \in 1..Len(principle_chart) :
                              /\ principle_chart[i].Principle = p
                              /\ principle_chart[i].Status = s
                              /\ principle_chart[i].Count =
                                    Cardinality(PairRows(filtered, p, s))}) = 1

\* C6 as stated: no zero count, every pair once, and the counts add up to the
\* number of records of the subset.
C6_CountsCoverSubset ==
    /\ PairsOnce
    /\ SumCounts(principle_chart) = Len(filtered)

\* C6 amended: no zero count, every pair once, and the counts add up to the
\* number of records that have both a Principle and a Recruitment Status.
C6_CountsCoverComplete ==
    /\ PairsOnce
    /\ \A i \in 1..Len(principle_chart) :
          PairRows(filtered, principle_chart[i].Principle,
                   principle_chart[i].Status) # {}
    /\ SumCounts(principle_chart) = Cardinality(Complete(filtered))

\* The subset has a record without Principle or Recruitment Status next to a
\* record that has both.
C6_Witness ==
    /\ Complete(filtered) # {}
    /\ Cardinality(Complete(filtered)) < Len(filtered)
    /\ principle_chart # <<>>

\* C7: a group of the regional chart whose OPEN plus RECRUIT count is positive
\* has the percentage recruit / (open + recruit) * 100 of its own records,
\* which lies in [0, 100].
C7_GroupPercentage ==
    \A ch \in Charts : \A i \in 1..Len(ch[2].rows) :
        LET row == ch[2].rows[i]
            o == NumRegionStatus(ch[1], row.Regional, "OPEN")
            r == NumRegionStatus(ch[1], row.Regional, "RECRUIT")
        IN  o + r > 0 =>
                /\ Same(row.pct, Times100(TrueDiv(r, o + r)))
                /\ InRange(row.pct)

\* The AMK chart has a group with an OPEN record while AMK has no RECRUIT
\* record at all, and the AKP chart has a group with a RECRUIT record while
\* AKP has no OPEN record at all.
C7_Witness ==
    /\ regional_amk.status = "ok"
    /\ NumStatus(amk, "RECRUIT") = 0
    /\ \E i \in 1..Len(regional_amk.rows) :
          NumRegionStatus(amk, regional_amk.rows[i].Regional, "OPEN") > 0
    /\ regional_akp.status = "ok"
    /\ NumStatus(akp, "OPEN") = 0
    /\ \E i \in 1..Len(regional_akp.rows) :
          NumRegionStatus(akp, regional_akp.rows[i].Regional, "RECRUIT") > 0

\* The regions of data all of whose records (at least one) have a Recruitment
\* Status other than OPEN and RECRUIT.
OtherOnly(data) ==
    {g \in Unique(data, "Regional") :
        \A i \in RegionRows(data, g) :
            data[i]["Recruitment Status"] \notin {"OPEN", "RECRUIT", NaN}}

\* C8: a region that has records, none of them OPEN or RECRUIT, is returned by
\* regional_chart exactly once, with a not-a-number percentage.
C8_OtherOnlyGroupKept ==
    \A ch \in Called : \A g \in OtherOnly(ch[1]) :
        Cardinality({i \in 1..Len(ch[2].rows) :
                        ch[2].rows[i].Regional = g /\ IsNaN(ch[2].rows[i].pct)}) = 1

\* C9 as stated, for the calls that complete: every region of the loaded table
\* without a record in the sub-population is in the result with a zero or
\* not-a-number percentage, and no other region is synthesized.
C9_AbsentRegionsIncluded ==
    \A ch \in Charts : ch[2].status = "ok" =>
        /\ \A g \in Unique(df, "Regional") :
              RegionRows(ch[1], g) = {} =>
                  \E i \in 1..Len(ch[2].rows) :
                      /\ ch[2].rows[i].Regional = g
                      /\ IsNaN(ch[2].rows[i].pct) \/ ch[2].rows[i].pct.num = 0
        /\ \A i \in 1..Len(ch[2].rows) :
              ch[2].rows[i].Regional \in Unique(df, "Regional")

\* C9 amended: a region without a record in the sub-population passed to
\* regional_chart is not in the result, whether or not the loaded table has it.
C9_AbsentRegionsOmitted ==
    \A ch \in Charts : \A i \in 1..Len(ch[2].rows) :
        RegionRows(ch[1], ch[2].rows[i].Regional) # {}

\* A chart is drawn for a sub-population that lacks a region of the table.
C9_Witness ==
    \E ch \in Charts :
        /\ ch[2].status = "ok"
        /\ ch[2].rows # <<>>
        /\ \E g \in Unique(df, "Regional") : RegionRows(ch[1], g) = {}

\* Position of the first record of region g in data.
FirstAt(data, g) == CHOOSE i \in RegionRows(data, g) :
                        \A j \in RegionRows(data, g) : i <= j

\* C10 as stated: the groups come in the order in which their regions first
\* occur in the rows of the subset.
C10_FirstOccurrenceOrder ==
    \A ch \in Charts : \A i, j \in 1..Len(ch[2].rows) :
        i < j => FirstAt(ch[1], ch[2].rows[i].Regional)
                    < FirstAt(ch[1], ch[2].rows[j].Regional)

\* C10 amended: the groups come in ascending order of the Regional value.
C10_AscendingOrder ==
    \A ch \in Charts : \A i, j \in 1..Len(ch[2].rows) :
        i < j => Before(ch[2].rows[i].Regional, ch[2].rows[j].Regional)

\* A chart of two groups whose regions first occur in descending order.
C10_Witness ==
    \E ch \in Charts :
        /\ Len(ch[2].rows) >= 2
        /\ FirstAt(ch[1], ch[2].rows[2].Regional)
              < FirstAt(ch[1], ch[2].rows[1].Regional)

====
